---- MODULE Spec2Model ----
(***************************************************************************)
(* A model of gazebo's PhysicsEngine parameter dispatch (SetParam,         *)
(* GetParam, OnPhysicsMsg, the typed setters, Load) and of sdf::Param's    *)
(* typed accessors (Param::Get for every kind, Param::Set), both from      *)
(* src/gazebo/physics/PhysicsEngine.cc.                                    *)
(*                                                                         *)
(* Numbers (double, float, int, unsigned int) are naturals; a character is *)
(* its ASCII code and a string the sequence of its characters, so that     *)
(* lexical_cast, boost::split and the vector parse are computed character  *)
(* by character.  Every typed value is the tuple of its components: <<n>>  *)
(* for a number, <<1>> or <<0>> for a bool, <<c>> for a char, <<x, y, z>>  *)
(* for a vector, the characters for a string.                              *)
(***************************************************************************)
EXTENDS Integers, Sequences, FiniteSets, TLC

\* Largest double a caller, a message or a description file supplies.
MaxDouble == 1
\* Number of distinct 3D vectors a caller, a message or a file supplies.
NumVecs == 2
\* Largest number of entries of one update message.
MaxEntries == 3
\* Longest string held by a string-typed Param handle.
MaxStrLen == 6

DoubleVals == 0..MaxDouble

\* Vectors with pairwise distinct components, so that a swapped or dropped
\* component shows.
Vec3Vals == {<<k, k + 1, k + 2>> : k \in 0..(NumVecs - 1)}

(***************************************************************************)
(* Strings and the conversions boost::lexical_cast performs.               *)
(***************************************************************************)
\* The characters used: ' ', '0', '1', '2', '9', 'x'.
Space == 32

Char0 == 48

Char1 == 49

Char2 == 50

Char9 == 57

CharX == 120

DigitChar(d) == Char0 + d

IsDigit(c) == Char0 <= c /\ c <= Char9

DigitVal(c) == c - Char0

\* boost::lexical_cast<std::string>(number), for a whole number.
RECURSIVE NatToStr(_)
NatToStr(n) ==
  IF n < 10 THEN <<DigitChar(n)>>
  ELSE NatToStr(n \div 10) \o <<DigitChar(n % 10)>>

\* Whether boost::lexical_cast<double>/<int>(token) succeeds: the whole token
\* must be a number (an empty token is a bad_lexical_cast).
IsNumber(tok) == Len(tok) > 0 /\ \A k \in 1..Len(tok) : IsDigit(tok[k])

\* boost::lexical_cast<double>/<int>(token) of a token that is a number.
RECURSIVE StrToNat(_)
StrToNat(tok) ==
  IF Len(tok) = 0 THEN 0
  ELSE 10 * StrToNat(SubSeq(tok, 1, Len(tok) - 1)) + DigitVal(tok[Len(tok)])

\* The components of a vector, pose, color, ... written with one space between.
RECURSIVE JoinSpace(_)
JoinSpace(comps) ==
  IF Len(comps) = 0 THEN <<>>
  ELSE IF Len(comps) = 1 THEN NatToStr(comps[1])
  ELSE NatToStr(comps[1]) \o <<Space>> \o JoinSpace(Tail(comps))

\* boost::split(pieces, s, boost::is_any_of(" ")): token compression is off, so
\* every space ends a piece, two adjacent spaces enclose an empty piece, and the
\* empty string is one empty piece.
RECURSIVE Split(_)
Split(s) ==
  IF \A k \in 1..Len(s) : s[k] # Space THEN <<s>>
  ELSE LET k == CHOOSE j \in 1..Len(s) :
                  s[j] = Space /\ \A m \in 1..(j - 1) : s[m] # Space
       IN <<SubSeq(s, 1, k - 1)>> \o Split(SubSeq(s, k + 1, Len(s)))

(***************************************************************************)
(* sdf::Param: a handle is its type tag (Param::typeName) and the typed    *)
(* value its ParamT<T> subobject holds, as the tuple of its components.    *)
(***************************************************************************)
NumberKinds == {"int", "unsigned int", "float", "double"}

ScalarKinds == {"bool", "int", "unsigned int", "float", "double", "char",
                "string", "quaternion", "pose", "color", "time"}

VectorKinds == {"vector3", "vector2i", "vector2d"}

ParamKinds == ScalarKinds \cup VectorKinds

\* How many numbers the string form of a tuple kind holds.
Components(kind) ==
  CASE kind = "vector3" -> 3
    [] kind = "vector2i" -> 2
    [] kind = "vector2d" -> 2
    [] kind = "quaternion" -> 4
    [] kind = "pose" -> 7
    [] kind = "color" -> 4
    [] kind = "time" -> 2
    [] OTHER -> 1

\* The pieces of a split that are not empty, in order.
RECURSIVE Retained(_)
Retained(pieces) ==
  IF Len(pieces) = 0 THEN <<>>
  ELSE IF Head(pieces) = <<>> THEN Retained(Tail(pieces))
  ELSE <<Head(pieces)>> \o Retained(Tail(pieces))

\* ParamT<T>::GetAsString: the canonical string form of the handle's value.
GetAsString(h) ==
  CASE h.typeName = "string" -> h.value
    [] h.typeName = "char" -> h.value
    [] OTHER -> JoinSpace(h.value)

\* ParamT<T>::SetFromString: parse the string as the handle's own kind and store
\* it; a string that does not parse leaves the handle as it was.
SetFromString(h, str) ==
  LET toks == Retained(Split(str))
      ok ==
        CASE h.typeName = "string" -> TRUE
          [] h.typeName = "char" -> Len(str) = 1
          [] h.typeName = "bool" -> str \in {<<Char0>>, <<Char1>>}
          [] h.typeName \in NumberKinds -> IsNumber(str)
          [] OTHER -> /\ Len(toks) = Components(h.typeName)
                      /\ \A k \in 1..Len(toks) : IsNumber(toks[k])
      val ==
        CASE h.typeName = "string" -> str
          [] h.typeName = "char" -> str
          [] h.typeName \in {"bool"} \cup NumberKinds -> <<StrToNat(str)>>
          [] OTHER -> [k \in 1..Len(toks) |-> StrToNat(toks[k])]
  IN IF ok THEN [ok |-> TRUE, handle |-> [h EXCEPT !.value = val]]
     ELSE [ok |-> FALSE, handle |-> h]

\* Param::Set(const double &): through the string form.
ParamSetDouble(h, v) == SetFromString(h, NatToStr(v))

\* Param::Set(const Vector3 &): through the string form.
ParamSetVector3(h, v) == SetFromString(h, JoinSpace(v))

(***************************************************************************)
(* PhysicsEngine.  A boost::any is the type it holds and the value:        *)
(* [type |-> "double", v |-> 1].  boost::any_cast<T> succeeds only when    *)
(* the held type is exactly T.                                             *)
(***************************************************************************)
VARIABLES
  maxStepSize,            \* PhysicsEngine::maxStepSize
  realTimeUpdateRate,     \* PhysicsEngine::realTimeUpdateRate
  targetRealTimeFactor,   \* PhysicsEngine::targetRealTimeFactor
  sdf,                    \* PhysicsEngine::sdf: element name -> Param handle
  engineType,             \* the concrete engine's name, what GetType() returns
  call,                   \* the last call made on the engine, with its result
  pc,                     \* OnPhysicsMsg: "idle", or where in the loop it is
  size,                   \* OnPhysicsMsg: _msg->parameters_size()
  i,                      \* OnPhysicsMsg: the loop index
  entry,                  \* OnPhysicsMsg: the entry this iteration read
  value,                  \* OnPhysicsMsg: the local boost::any
  missed,                 \* history: an entry of this message was skipped or
                          \* its SetParam returned false
  handle,                 \* a Param handle read through Param::Get
  pcall,                  \* the last Param::Get call, with its result
  mutex,                  \* PhysicsEngine::physicsUpdateMutex: the thread
                          \* that holds it, or "free"
  stepPc,                 \* the stepping thread: "in" its cycle or "out"
  seen                    \* the fields the stepping thread read in its cycle

engineVars ==
  <<maxStepSize, realTimeUpdateRate, targetRealTimeFactor, sdf, engineType>>

msgVars == <<pc, size, i, entry, value, missed>>

paramVars == <<handle, pcall>>

lockVars == <<mutex, stepPc, seen>>

vars == <<maxStepSize, realTimeUpdateRate, targetRealTimeFactor, sdf,
          engineType, call, pc, size, i, entry, value, missed, handle, pcall,
          mutex, stepPc, seen>>

\* The engine's fields as one record, so that the methods are operators on it.
Engine ==
  [maxStepSize |-> maxStepSize,
   realTimeUpdateRate |-> realTimeUpdateRate,
   targetRealTimeFactor |-> targetRealTimeFactor,
   sdf |-> sdf,
   type |-> engineType]

DoubleElements == {"max_step_size", "real_time_update_rate", "real_time_factor"}

VectorElements == {"gravity", "magnetic_field"}

ElementNames == DoubleElements \cup VectorElements

WritableKeys == ElementNames

ReadableKeys == WritableKeys \cup {"type"}

\* Every key a caller passes: the six the engine knows and one it does not.
Keys == ReadableKeys \cup {"cfm"}

\* The type PhysicsEngine::SetParam casts the value of a writable key to.
ExpectedType(key) ==
  IF key \in DoubleElements THEN "double" ELSE "math::Vector3"

\* A boost::any holding nothing.
EmptyAny == [type |-> "empty", v |-> <<>>]

AnyDouble(d) == [type |-> "double", v |-> <<d>>]

AnyVector3(v) == [type |-> "math::Vector3", v |-> v]

AnyMsgVector3d(v) == [type |-> "msgs::Vector3d", v |-> v]

\* The concrete engine a PhysicsEngine is, and another.
EngineTypes == {"ode", "bullet"}

\* PhysicsEngine::GetType(), virtual: the name of the concrete engine.
GetType(e) == e.type

\* The std::string a boost::any of the engine's name holds: 'o' is 111, 'b' 98.
TypeString(t) == IF t = "ode" THEN <<111, 100, 101>> ELSE <<98, 117, 108, 108, 101, 116>>

\* The description tree sdf::initFile("physics.sdf") builds: every element typed,
\* holding the schema's default.
DefaultSdf ==
  [name \in ElementNames |->
     IF name \in DoubleElements
     THEN [typeName |-> "double", value |-> <<1>>]
     ELSE [typeName |-> "vector3", value |-> <<0, 1, 2>>]]

\* The description trees handed to Load.
SdfTrees ==
  {[name \in ElementNames |->
      IF name \in DoubleElements
      THEN [typeName |-> "double", value |-> <<d>>]
      ELSE [typeName |-> "vector3", value |-> v]] :
     d \in DoubleVals, v \in Vec3Vals}

\* sdf::Element::Set(value) of the named element.
ElementSetDouble(e, name, v) ==
  [e EXCEPT !.sdf[name] = ParamSetDouble(e.sdf[name], v).handle]

ElementSetVector3(e, name, v) ==
  [e EXCEPT !.sdf[name] = ParamSetVector3(e.sdf[name], v).handle]

\* PhysicsEngine::Load
LoadEngine(e, tree) ==
  [e EXCEPT !.sdf = tree,
            !.realTimeUpdateRate = tree["real_time_update_rate"].value[1],
            !.targetRealTimeFactor = tree["real_time_factor"].value[1],
            !.maxStepSize = tree["max_step_size"].value[1]]

\* PhysicsEngine::GetMaxStepSize
GetMaxStepSize(e) == e.maxStepSize

\* PhysicsEngine::GetRealTimeUpdateRate
GetRealTimeUpdateRate(e) == e.realTimeUpdateRate

\* Mutant of GetTargetRealTimeFactor: the getter above, pasted.
GetTargetRealTimeFactorPasted(e) == e.realTimeUpdateRate

\* PhysicsEngine::GetTargetRealTimeFactor
GetTargetRealTimeFactor(e) == e.targetRealTimeFactor

\* PhysicsEngine::SetTargetRealTimeFactor
SetTargetRealTimeFactor(e, factor) ==
  [ElementSetDouble(e, "real_time_factor", factor)
     EXCEPT !.targetRealTimeFactor = factor]

\* PhysicsEngine::SetRealTimeUpdateRate
SetRealTimeUpdateRate(e, rate) ==
  [ElementSetDouble(e, "real_time_update_rate", rate)
     EXCEPT !.realTimeUpdateRate = rate]

\* Mutant of SetMaxStepSize: the cached field is written, the tree is not.
SetMaxStepSizeCacheOnly(e, stepSize) == [e EXCEPT !.maxStepSize = stepSize]

\* PhysicsEngine::SetMaxStepSize
SetMaxStepSize(e, stepSize) ==
  [ElementSetDouble(e, "max_step_size", stepSize)
     EXCEPT !.maxStepSize = stepSize]

\* PhysicsEngine::SetGravity, pure virtual here: the concrete engine persists the
\* vector into the description tree's gravity element.
SetGravity(e, gravity) == ElementSetVector3(e, "gravity", gravity)

\* PhysicsEngine::GetGravity
GetGravity(e) == e.sdf["gravity"].value

\* Mutant of AnyCastOk: a cast that converts between the arithmetic types.
AnyCastConverting(val, T) ==
  \/ val.type = T
  \/ T = "double" /\ val.type \in {"int", "float"}

\* boost::any_cast<T>(value) returns: the held type is exactly T.  Otherwise it
\* throws bad_any_cast.
AnyCastOk(val, T) == val.type = T

\* Mutant of SetTypeParam: a string is taken as a request to switch engines.
SetTypeParamSwitching(e, val) ==
  IF val.type = "string"
  THEN [ret |-> FALSE, eng |-> [e EXCEPT !.type = "bullet"]]
  ELSE [ret |-> FALSE, eng |-> e]

\* Lines 272-276, the key "type": a warning, and false.
SetTypeParam(e, val) == [ret |-> FALSE, eng |-> e]

\* PhysicsEngine::SetParam: [ret, eng].  The cast is evaluated before the setter
\* is entered, so a bad_any_cast leaves the engine as it was; the catch returns
\* false.
SetParam(e, key, val) ==
  LET caught == [ret |-> FALSE, eng |-> e]
  IN IF key = "type" THEN SetTypeParam(e, val)
     ELSE IF key = "max_step_size"
          THEN IF AnyCastOk(val, "double")
               THEN [ret |-> TRUE, eng |-> SetMaxStepSize(e, val.v[1])]
               ELSE caught
     ELSE IF key = "real_time_update_rate"
          THEN IF AnyCastOk(val, "double")
               THEN [ret |-> TRUE, eng |-> SetRealTimeUpdateRate(e, val.v[1])]
               ELSE caught
     ELSE IF key = "real_time_factor"
          THEN IF AnyCastOk(val, "double")
               THEN [ret |-> TRUE, eng |-> SetTargetRealTimeFactor(e, val.v[1])]
               ELSE caught
     ELSE IF key = "gravity"
          THEN IF AnyCastOk(val, "math::Vector3")
               THEN [ret |-> TRUE, eng |-> SetGravity(e, val.v)]
               ELSE caught
     ELSE IF key = "magnetic_field"
          THEN IF AnyCastOk(val, "math::Vector3")
               THEN [ret |-> TRUE,
                     eng |-> ElementSetVector3(e, "magnetic_field", val.v)]
               ELSE caught
     ELSE [ret |-> FALSE, eng |-> e]

\* PhysicsEngine::GetParam(key, value): [ret, out], out being the caller's
\* boost::any after the call.
GetParam(e, key, out) ==
  CASE key = "type" -> [ret |-> TRUE, out |-> [type |-> "string", v |-> TypeString(GetType(e))]]
    [] key = "max_step_size" ->
         [ret |-> TRUE, out |-> AnyDouble(GetMaxStepSize(e))]
    [] key = "real_time_update_rate" ->
         [ret |-> TRUE, out |-> AnyDouble(GetRealTimeUpdateRate(e))]
    [] key = "real_time_factor" ->
         [ret |-> TRUE, out |-> AnyDouble(GetTargetRealTimeFactor(e))]
    [] key = "gravity" -> [ret |-> TRUE, out |-> AnyVector3(GetGravity(e))]
    [] key = "magnetic_field" ->
         [ret |-> TRUE, out |-> AnyVector3(e.sdf["magnetic_field"].value)]
    [] OTHER -> [ret |-> FALSE, out |-> out]

(***************************************************************************)
(* The engine's public methods as actions.  call records the call just     *)
(* made: the method, its key and value, what it returned and, for          *)
(* GetParam, the caller's boost::any before (prior) and after (out).       *)
(***************************************************************************)
NoCall ==
  [op |-> "none", key |-> "", value |-> EmptyAny, ret |-> FALSE,
   prior |-> EmptyAny, out |-> EmptyAny]

\* The values a caller passes to SetParam: of the two types the engine casts
\* to, and of every other type a boost::any of an update message can hold.
AnyVals ==
  {AnyDouble(d) : d \in DoubleVals}
    \cup {AnyVector3(v) : v \in Vec3Vals}
    \cup {AnyMsgVector3d(<<0, 1, 2>>)}
    \cup {[type |-> t, v |-> <<1>>] : t \in {"int", "bool", "float"}}
    \cup {[type |-> "string", v |-> <<Char1>>]}

\* What the caller's boost::any holds before GetParam.
PriorAnys == {EmptyAny, [type |-> "int", v |-> <<0>>]}

SetEngine(e) ==
  /\ maxStepSize' = e.maxStepSize
  /\ realTimeUpdateRate' = e.realTimeUpdateRate
  /\ targetRealTimeFactor' = e.targetRealTimeFactor
  /\ sdf' = e.sdf
  /\ engineType' = e.type

\* The state the constructor leaves: the three cached fields 0, the description
\* tree the schema's defaults.
InitEngine ==
  /\ maxStepSize = 0
  /\ realTimeUpdateRate = 0
  /\ targetRealTimeFactor = 0
  /\ sdf = DefaultSdf
  /\ engineType = "ode"
  /\ call = NoCall

Load(tree) ==
  /\ pc = "idle"
  /\ SetEngine(LoadEngine(Engine, tree))
  /\ call' = [NoCall EXCEPT !.op = "Load"]
  /\ UNCHANGED <<msgVars, paramVars, lockVars>>

CallSetParam(key, val) ==
  LET r == SetParam(Engine, key, val)
  IN /\ pc = "idle"
     /\ SetEngine(r.eng)
     /\ call' = [NoCall EXCEPT !.op = "SetParam", !.key = key, !.value = val,
                               !.ret = r.ret]
     /\ UNCHANGED <<msgVars, paramVars, lockVars>>

CallGetParam(key, prior) ==
  LET r == GetParam(Engine, key, prior)
  IN /\ pc = "idle"
     /\ call' = [NoCall EXCEPT !.op = "GetParam", !.key = key, !.ret = r.ret,
                               !.prior = prior, !.out = r.out]
     /\ UNCHANGED <<engineVars, msgVars, paramVars, lockVars>>

CallSetMaxStepSize(d) ==
  /\ pc = "idle"
  /\ SetEngine(SetMaxStepSize(Engine, d))
  /\ call' = [NoCall EXCEPT !.op = "SetMaxStepSize", !.key = "max_step_size",
                            !.value = AnyDouble(d)]
  /\ UNCHANGED <<msgVars, paramVars, lockVars>>

CallSetRealTimeUpdateRate(d) ==
  /\ pc = "idle"
  /\ SetEngine(SetRealTimeUpdateRate(Engine, d))
  /\ call' = [NoCall EXCEPT !.op = "SetRealTimeUpdateRate",
                            !.key = "real_time_update_rate",
                            !.value = AnyDouble(d)]
  /\ UNCHANGED <<msgVars, paramVars, lockVars>>

CallSetTargetRealTimeFactor(d) ==
  /\ pc = "idle"
  /\ SetEngine(SetTargetRealTimeFactor(Engine, d))
  /\ call' = [NoCall EXCEPT !.op = "SetTargetRealTimeFactor",
                            !.key = "real_time_factor",
                            !.value = AnyDouble(d)]
  /\ UNCHANGED <<msgVars, paramVars, lockVars>>

(***************************************************************************)
(* PhysicsEngine::OnPhysicsMsg.  An entry of the message (msgs::NamedParam) *)
(* is its name, its type discriminator ("none" when has_type() is false),  *)
(* the set of its populated value fields, and the values of the populated  *)
(* double and vector fields; a field that is not populated reads as the    *)
(* protobuf default.                                                       *)
(***************************************************************************)
Fields ==
  {"double_value", "int_value", "string_value", "vector3d", "bool_value",
   "float_value"}

\* The enumerators the switch names, and the field each reads.
TypeField ==
  [t \in {"DOUBLE_TYPE", "INT_TYPE", "STRING_TYPE", "VECTOR3D_TYPE",
          "BOOL_TYPE", "FLOAT_TYPE"} |->
     CASE t = "DOUBLE_TYPE" -> "double_value"
       [] t = "INT_TYPE" -> "int_value"
       [] t = "STRING_TYPE" -> "string_value"
       [] t = "VECTOR3D_TYPE" -> "vector3d"
       [] t = "BOOL_TYPE" -> "bool_value"
       [] t = "FLOAT_TYPE" -> "float_value"]

\* The discriminators: the six the switch names and one it leaves to default.
TypeTags == DOMAIN TypeField \cup {"OTHER_TYPE"}

\* The boost::any the assignment value = parameters(i).<field>() makes: the
\* accessor's C++ type and the field's value, or its default when not populated.
FieldAny(en, f) ==
  CASE f = "double_value" ->
         AnyDouble(IF f \in en.has THEN en.double_value ELSE 0)
    [] f = "int_value" ->
         [type |-> "int", v |-> IF f \in en.has THEN <<1>> ELSE <<0>>]
    [] f = "string_value" ->
         [type |-> "string", v |-> IF f \in en.has THEN <<Char1>> ELSE <<>>]
    [] f = "vector3d" ->
         AnyMsgVector3d(IF f \in en.has THEN en.vector3d ELSE <<0, 0, 0>>)
    [] f = "bool_value" ->
         [type |-> "bool", v |-> IF f \in en.has THEN <<1>> ELSE <<0>>]
    [] f = "float_value" ->
         [type |-> "float", v |-> IF f \in en.has THEN <<1>> ELSE <<0>>]

\* An entry reads the same whatever value a field that is not populated is
\* given: the record keeps 0 and <<0, 1, 2>> there.
EntryOf(k, t, h, d, v) ==
  [name |-> k, type |-> t, has |-> h,
   double_value |-> IF "double_value" \in h THEN d ELSE 0,
   vector3d |-> IF "vector3d" \in h THEN v ELSE <<0, 1, 2>>]

\* The entries a sender builds, under any key: without a discriminator and with
\* at most one field populated, or with a discriminator and the field it names
\* populated; and the entry with the double discriminator and no field populated.
Entries ==
  {EntryOf(k, "none", h, d, v) :
     k \in Keys, h \in {{}} \cup {{f} : f \in Fields},
     d \in DoubleVals, v \in Vec3Vals}
    \cup {EntryOf(k, t, {TypeField[t]}, d, v) :
            k \in Keys, t \in DOMAIN TypeField, d \in DoubleVals, v \in Vec3Vals}
    \cup {EntryOf(k, t, {}, 0, <<0, 1, 2>>) :
            k \in Keys, t \in {"DOUBLE_TYPE", "OTHER_TYPE"}}

\* The entries without a discriminator, with every set of populated fields,
\* under one key.
LegacyEntries ==
  {EntryOf("max_step_size", "none", h, d, v) :
     h \in SUBSET Fields, d \in DoubleVals, v \in Vec3Vals}

NoEntry == EntryOf("", "none", {}, 0, <<0, 1, 2>>)

\* Mutant of Decode: the string field is looked at before the int field.
DecodeStringFirst(en, val) ==
  IF en.type # "none"
  THEN IF en.type \in DOMAIN TypeField
       THEN [skip |-> FALSE, value |-> FieldAny(en, TypeField[en.type])]
       ELSE [skip |-> TRUE, value |-> val]
  ELSE IF "double_value" \in en.has
       THEN [skip |-> FALSE, value |-> FieldAny(en, "double_value")]
  ELSE IF "string_value" \in en.has
       THEN [skip |-> FALSE, value |-> FieldAny(en, "string_value")]
  ELSE IF "int_value" \in en.has
       THEN [skip |-> FALSE, value |-> FieldAny(en, "int_value")]
  ELSE IF "vector3d" \in en.has
       THEN [skip |-> FALSE, value |-> FieldAny(en, "vector3d")]
  ELSE IF "bool_value" \in en.has
       THEN [skip |-> FALSE, value |-> FieldAny(en, "bool_value")]
  ELSE IF "float_value" \in en.has
       THEN [skip |-> FALSE, value |-> FieldAny(en, "float_value")]
  ELSE [skip |-> TRUE, value |-> val]

\* Lines 201-261, the decoding of one entry: [skip, value], skip for the two
\* branches that log "Empty parameter msg" and continue, value what the local
\* boost::any holds afterwards.
Decode(en, val) ==
  IF en.type # "none"
  THEN IF en.type \in DOMAIN TypeField
       THEN [skip |-> FALSE, value |-> FieldAny(en, TypeField[en.type])]
       ELSE [skip |-> TRUE, value |-> val]
  ELSE IF "double_value" \in en.has
       THEN [skip |-> FALSE, value |-> FieldAny(en, "double_value")]
  ELSE IF "int_value" \in en.has
       THEN [skip |-> FALSE, value |-> FieldAny(en, "int_value")]
  ELSE IF "string_value" \in en.has
       THEN [skip |-> FALSE, value |-> FieldAny(en, "string_value")]
  ELSE IF "vector3d" \in en.has
       THEN [skip |-> FALSE, value |-> FieldAny(en, "vector3d")]
  ELSE IF "bool_value" \in en.has
       THEN [skip |-> FALSE, value |-> FieldAny(en, "bool_value")]
  ELSE IF "float_value" \in en.has
       THEN [skip |-> FALSE, value |-> FieldAny(en, "float_value")]
  ELSE [skip |-> TRUE, value |-> val]

\* The for loop's condition.
LoopCond(idx, n) == idx < n

\* Mutant of AfterSetParam: a refused entry ends the loop.
AfterSetParamBreak(ret) == IF ret THEN "incr" ELSE "break"

\* Where the loop goes once SetParam has returned ret: on to i++.
AfterSetParam(ret) == "incr"

\* Where the loop goes from an entry that decodes to nothing: continue, to i++.
AfterSkip == "incr"

\* The callback is entered with a message of n entries.
OnPhysicsMsgBegin(n) ==
  /\ pc = "idle"
  /\ pc' = "head"
  /\ size' = n
  /\ i' = 0
  /\ value' = EmptyAny
  /\ entry' = NoEntry
  /\ missed' = FALSE
  /\ call' = [NoCall EXCEPT !.op = "OnPhysicsMsg"]
  /\ UNCHANGED <<engineVars, paramVars, lockVars>>

\* The loop's condition holds: entry i, which is en, is decoded.
OnPhysicsMsgDecode(en) ==
  LET d == Decode(en, value)
  IN /\ pc = "head"
     /\ LoopCond(i, size)
     /\ entry' = en
     /\ value' = d.value
     /\ pc' = IF d.skip THEN AfterSkip ELSE "call"
     /\ missed' = (missed \/ d.skip)
     /\ call' = [NoCall EXCEPT !.op = IF d.skip THEN "continue" ELSE "decoded"]
     /\ UNCHANGED <<engineVars, size, i, paramVars, lockVars>>

\* Line 262: this->SetParam(parameters(i).name(), value).
OnPhysicsMsgSetParam ==
  LET r == SetParam(Engine, entry.name, value)
  IN /\ pc = "call"
     /\ SetEngine(r.eng)
     /\ call' = [NoCall EXCEPT !.op = "SetParam", !.key = entry.name,
                               !.value = value, !.ret = r.ret]
     /\ pc' = AfterSetParam(r.ret)
     /\ missed' = (missed \/ ~r.ret)
     /\ UNCHANGED <<size, i, entry, value, paramVars, lockVars>>

\* i++, and the next iteration begins.
OnPhysicsMsgIncr ==
  /\ pc = "incr"
  /\ i' = i + 1
  /\ pc' = "head"
  /\ entry' = NoEntry
  /\ call' = [NoCall EXCEPT !.op = "OnPhysicsMsg"]
  /\ UNCHANGED <<engineVars, size, value, missed, paramVars, lockVars>>

\* The loop is left and the callback returns.
OnPhysicsMsgReturn ==
  /\ pc \in {"head", "break"}
  /\ pc = "head" => ~LoopCond(i, size)
  /\ pc' = "idle"
  /\ call' = [NoCall EXCEPT !.op = "return"]
  /\ UNCHANGED <<engineVars, size, i, entry, value, missed, paramVars, lockVars>>

(***************************************************************************)
(* Param::Get.  Every overload returns [outcome, ret, cast, touched, out]: *)
(* whether it returned or crashed, the bool it returned, the ParamT<T> it  *)
(* downcast the handle to ("none" when it did not), the components of the  *)
(* out-parameter it assigned, and the values it assigned to them.          *)
(***************************************************************************)
Alphabet == {Space, Char1, Char2, CharX}

Strings == UNION {[1..n -> Alphabet] : n \in 0..MaxStrLen}

\* The handles read: a string handle for every string, and a handle or two of
\* every other kind.
Handles ==
  {[typeName |-> "string", value |-> str] : str \in Strings}
    \cup {[typeName |-> k, value |-> <<n>>] : k \in NumberKinds, n \in {2, 12}}
    \cup {[typeName |-> "bool", value |-> <<b>>] : b \in {0, 1}}
    \cup {[typeName |-> "char", value |-> <<CharX>>]}
    \cup {[typeName |-> "vector3", value |-> v] : v \in Vec3Vals}
    \cup {[typeName |-> k, value |-> <<1, 2>>] : k \in {"vector2i", "vector2d", "time"}}
    \cup {[typeName |-> k, value |-> <<1, 0, 0, 0>>] : k \in {"quaternion", "color"}}
    \cup {[typeName |-> "pose", value |-> <<1, 2, 1, 1, 0, 0, 0>>]}

\* What a read past the end of the elements vector can yield.
Indeterminate == {0, 2}

\* Mutant of IsKind: IsInt takes any integer tag.
IsKindAnyInt(h, kind) ==
  \/ h.typeName = kind
  \/ kind = "int" /\ h.typeName = "unsigned int"

\* Param::IsBool, IsInt, ..., IsTime: the tag is the kind's name.
IsKind(h, kind) == h.typeName = kind

\* Param::Get(bool &), (int &), (unsigned int &), (float &), (double &),
\* (char &), (std::string &), (Quaternion &), (Pose &), (Color &), (Time &).
GetScalar(h, kind) ==
  IF IsKind(h, kind)
  THEN [outcome |-> "returned", ret |-> TRUE, cast |-> kind,
        touched |-> {1}, out |-> h.value]
  ELSE [outcome |-> "returned", ret |-> FALSE, cast |-> "none",
        touched |-> {}, out |-> <<>>]

\* The loop over the pieces: [ok, elements]; an empty piece is passed over, a
\* piece that is no number ends the loop with a failure.
RECURSIVE ParsePieces(_, _)
ParsePieces(pieces, elements) ==
  IF Len(pieces) = 0 THEN [ok |-> TRUE, elements |-> elements]
  ELSE IF Head(pieces) = <<>> THEN ParsePieces(Tail(pieces), elements)
  ELSE IF IsNumber(Head(pieces))
       THEN ParsePieces(Tail(pieces), Append(elements, StrToNat(Head(pieces))))
  ELSE [ok |-> FALSE, elements |-> elements]

\* Mutant of GetVector: as strict as the scalar accessors.
GetVectorStrict(h, kind, n, ub) ==
  IF IsKind(h, kind)
  THEN [outcome |-> "returned", ret |-> TRUE, cast |-> kind,
        touched |-> 1..n, out |-> h.value]
  ELSE [outcome |-> "returned", ret |-> FALSE, cast |-> "none",
        touched |-> {}, out |-> <<>>]

\* The body shared by Param::Get(Vector3 &), (Vector2i &) and (Vector2d &), for
\* a vector of n components.  ub is what the build does when elements[k] is read
\* with k past the end: it crashes, or the read yields an indeterminate value.
GetVector(h, kind, n, ub) ==
  IF IsKind(h, kind)
  THEN [outcome |-> "returned", ret |-> TRUE, cast |-> kind,
        touched |-> 1..n, out |-> h.value]
  ELSE LET pieces == Split(GetAsString(h))
           failed == [outcome |-> "returned", ret |-> FALSE, cast |-> "none",
                      touched |-> {}, out |-> <<>>]
       IN IF Len(pieces) # n THEN failed
          ELSE LET p == ParsePieces(pieces, <<>>)
               IN IF ~p.ok THEN failed
                  ELSE IF Len(p.elements) < n /\ ub.crash
                  THEN [outcome |-> "crashed", ret |-> FALSE, cast |-> "none",
                        touched |-> 1..Len(p.elements),
                        out |-> p.elements]
                  ELSE [outcome |-> "returned", ret |-> TRUE, cast |-> "none",
                        touched |-> 1..n,
                        out |-> [k \in 1..n |->
                                   IF k <= Len(p.elements) THEN p.elements[k]
                                   ELSE ub.v]]

\* Param::Get(Vector3 &)
GetVector3(h, ub) == GetVector(h, "vector3", 3, ub)

\* Param::Get(Vector2i &)
GetVector2i(h, ub) == GetVector(h, "vector2i", 2, ub)

\* Param::Get(Vector2d &)
GetVector2d(h, ub) == GetVector(h, "vector2d", 2, ub)

NoPCall ==
  [kind |-> "none", outcome |-> "returned", ret |-> FALSE, cast |-> "none",
   touched |-> {}, out |-> <<>>]

Outcomes == [crash : BOOLEAN, v : Indeterminate]

Record(kind, r) ==
  [kind |-> kind, outcome |-> r.outcome, ret |-> r.ret, cast |-> r.cast,
   touched |-> r.touched, out |-> r.out]

\* A scalar accessor is called on the handle.
ParamGetScalar(kind) ==
  /\ pcall.outcome = "returned"
  /\ pcall' = Record(kind, GetScalar(handle, kind))
  /\ UNCHANGED <<engineVars, call, msgVars, handle, lockVars>>

ParamGetVector3(ub) ==
  /\ pcall.outcome = "returned"
  /\ pcall' = Record("vector3", GetVector3(handle, ub))
  /\ UNCHANGED <<engineVars, call, msgVars, handle, lockVars>>

ParamGetVector2i(ub) ==
  /\ pcall.outcome = "returned"
  /\ pcall' = Record("vector2i", GetVector2i(handle, ub))
  /\ UNCHANGED <<engineVars, call, msgVars, handle, lockVars>>

ParamGetVector2d(ub) ==
  /\ pcall.outcome = "returned"
  /\ pcall' = Record("vector2d", GetVector2d(handle, ub))
  /\ UNCHANGED <<engineVars, call, msgVars, handle, lockVars>>

(***************************************************************************)
(* The stepping loop, on its own thread: it takes physicsUpdateMutex for   *)
(* each read/update cycle.  The update messages are delivered on another   *)
(* thread, which runs OnPhysicsMsg as written above: no step of it takes   *)
(* or tests the mutex.                                                     *)
(***************************************************************************)
\* The fields a cycle of the stepping loop reads.
StepFields == <<maxStepSize, realTimeUpdateRate, targetRealTimeFactor>>

\* The cycle begins: the mutex is taken, granted when no other thread holds it,
\* and the fields are read.
StepLock ==
  /\ stepPc = "out"
  /\ mutex = "free"
  /\ mutex' = "step"
  /\ stepPc' = "in"
  /\ seen' = StepFields
  /\ UNCHANGED <<engineVars, call, msgVars, paramVars>>

\* The cycle ends: the mutex is released.
StepUnlock ==
  /\ stepPc = "in"
  /\ mutex' = "free"
  /\ stepPc' = "out"
  /\ seen' = <<0, 0, 0>>
  /\ UNCHANGED <<engineVars, call, msgVars, paramVars>>

\* The entries of the messages delivered while the loop steps: a double under
\* one of the double keys, populated or not.
LockEntries ==
  {en \in Entries : en.name \in DoubleElements /\ en.type = "DOUBLE_TYPE"}

(***************************************************************************)
(* The specifications.                                                     *)
(***************************************************************************)
InitMsg ==
  /\ pc = "idle"
  /\ size = 0
  /\ i = 0
  /\ entry = NoEntry
  /\ value = EmptyAny
  /\ missed = FALSE

\* The mutex the constructor creates is free, the stepping thread outside its
\* cycle.
InitLock ==
  /\ mutex = "free"
  /\ stepPc = "out"
  /\ seen = <<0, 0, 0>>

\* The engine's methods called directly.
Init ==
  /\ InitEngine
  /\ InitMsg
  /\ InitLock
  /\ handle = [typeName |-> "string", value |-> <<>>]
  /\ pcall = NoPCall

Next ==
  \/ \E tree \in SdfTrees : Load(tree)
  \/ \E key \in Keys, val \in AnyVals : CallSetParam(key, val)
  \/ \E key \in Keys, prior \in PriorAnys : CallGetParam(key, prior)
  \/ \E d \in DoubleVals : CallSetMaxStepSize(d)
  \/ \E d \in DoubleVals : CallSetRealTimeUpdateRate(d)
  \/ \E d \in DoubleVals : CallSetTargetRealTimeFactor(d)

Spec == Init /\ [][Next]_vars

\* The engine driven by update messages.
NextMsg ==
  \/ \E n \in 0..MaxEntries : OnPhysicsMsgBegin(n)
  \/ \E en \in Entries : OnPhysicsMsgDecode(en)
  \/ OnPhysicsMsgSetParam
  \/ OnPhysicsMsgIncr
  \/ OnPhysicsMsgReturn

SpecMsg == Init /\ [][NextMsg]_vars

\* The engine driven by messages of one entry with no discriminator.
NextDecode ==
  \/ OnPhysicsMsgBegin(1)
  \/ \E en \in LegacyEntries : OnPhysicsMsgDecode(en)
  \/ OnPhysicsMsgSetParam
  \/ OnPhysicsMsgIncr
  \/ OnPhysicsMsgReturn

SpecDecode == Init /\ [][NextDecode]_vars

\* A Param handle read through its accessors.
InitParam ==
  /\ InitEngine
  /\ InitMsg
  /\ InitLock
  /\ handle \in Handles
  /\ pcall = NoPCall

NextParam ==
  \/ \E kind \in ScalarKinds : ParamGetScalar(kind)
  \/ \E ub \in Outcomes : ParamGetVector3(ub)
  \/ \E ub \in Outcomes : ParamGetVector2i(ub)
  \/ \E ub \in Outcomes : ParamGetVector2d(ub)

SpecParam == InitParam /\ [][NextParam]_vars

\* The engine driven by update messages on one thread while the stepping loop
\* runs on another.
NextLock ==
  \/ \E n \in 0..MaxEntries : OnPhysicsMsgBegin(n)
  \/ \E en \in LockEntries : OnPhysicsMsgDecode(en)
  \/ OnPhysicsMsgSetParam
  \/ OnPhysicsMsgIncr
  \/ OnPhysicsMsgReturn
  \/ StepLock
  \/ StepUnlock

SpecLock == Init /\ [][NextLock]_vars

(***************************************************************************)
(* Properties of SetParam and GetParam, under Spec.                        *)
(***************************************************************************)

\* C1: SetParam with a writable key and a value whose type is not the type the
\* key's field is cast to returns false and leaves every engine field and every
\* element of the description tree as it was.
C1_TypeMismatchRejected ==
  [][(/\ call'.op = "SetParam"
      /\ call'.key \in WritableKeys
      /\ call'.value.type # ExpectedType(call'.key))
       => (call'.ret = FALSE /\ UNCHANGED engineVars)]_vars

\* SetParam("gravity", a double) was called on an engine whose fields a Load had
\* set, and returned false.
C1_Witness ==
  /\ call.op = "SetParam"
  /\ call.key = "gravity"
  /\ call.value.type = "double"
  /\ call.ret = FALSE
  /\ maxStepSize = 1
  /\ sdf["gravity"].value = <<1, 2, 3>>

\* What GetParam("type") yields.
TypeRead == GetParam(Engine, "type", EmptyAny)

\* C2: SetParam with the key "type", or with a key that is none of the five
\* writable ones, returns false and changes no field and no element; and no
\* SetParam call changes what GetParam("type") yields.
C2_ReadOnlyAndUnknownRejected ==
  [][(call'.op = "SetParam") =>
       /\ call'.key \notin WritableKeys
            => (call'.ret = FALSE /\ UNCHANGED engineVars)
       /\ TypeRead' = TypeRead]_vars

\* SetParam("type", a string) was called and returned false.
C2_Witness ==
  /\ call.op = "SetParam"
  /\ call.key = "type"
  /\ call.value.type = "string"
  /\ call.ret = FALSE
  /\ TypeRead = [ret |-> TRUE, out |-> [type |-> "string", v |-> TypeString("ode")]]

\* What GetParam(key) yields into an empty boost::any.
ReadOf(key) == GetParam(Engine, key, EmptyAny)

\* The keys whose read returns what SetParam wrote.
RoundTripKeys ==
  {"max_step_size", "real_time_update_rate", "real_time_factor", "magnetic_field"}

\* Whether the call c wrote the field of key.
WritesKey(c, key) ==
  \/ c.op = "Load"
  \/ c.op = "SetParam" /\ c.key = key /\ c.ret
  \/ c.op \in {"SetMaxStepSize", "SetRealTimeUpdateRate", "SetTargetRealTimeFactor"}
       /\ c.key = key

\* C6: GetParam returns true exactly for the six readable keys and yields the
\* key's current value; for any other key it returns false and leaves the
\* caller's boost::any as it was.  For max_step_size, real_time_update_rate,
\* real_time_factor and magnetic_field, a SetParam(key, v) that returned true
\* makes v the value GetParam(key) yields, and it stays so until the key is
\* written again.
C6_GetParamSymmetric ==
  [][/\ (call'.op = "GetParam") =>
          /\ call'.ret = (call'.key \in ReadableKeys)
          /\ call'.key \notin ReadableKeys => call'.out = call'.prior
          /\ call'.key \in ReadableKeys => call'.out = ReadOf(call'.key).out
          /\ UNCHANGED engineVars
     /\ \A key \in RoundTripKeys :
          /\ (call'.op = "SetParam" /\ call'.key = key /\ call'.ret)
               => (ReadOf(key)').out = call'.value
          /\ ~WritesKey(call', key) => ReadOf(key)' = ReadOf(key)]_vars

\* GetParam("real_time_factor") was called and returned true with 0 while the
\* update rate is 1: the factor was written after construction.
C6_Witness ==
  /\ call.op = "GetParam"
  /\ call.key = "real_time_factor"
  /\ call.ret
  /\ call.out = AnyDouble(0)
  /\ sdf["real_time_factor"].value = <<0>>
  /\ realTimeUpdateRate = 1

(***************************************************************************)
(* Properties of OnPhysicsMsg, under SpecMsg and SpecDecode.               *)
(***************************************************************************)
FieldOrder ==
  <<"double_value", "int_value", "string_value", "vector3d", "bool_value",
    "float_value">>

\* The first field of the order that is populated.
FirstPopulated(h) ==
  FieldOrder[CHOOSE k \in 1..Len(FieldOrder) :
               FieldOrder[k] \in h /\ \A j \in 1..(k - 1) : FieldOrder[j] \notin h]

\* An entry with nothing to decode.
Skippable(en) ==
  IF en.type = "none" THEN en.has = {} ELSE en.type \notin DOMAIN TypeField

\* The field an entry that is not skippable is decoded from.
DecodedField(en) ==
  IF en.type = "none" THEN FirstPopulated(en.has) ELSE TypeField[en.type]

\* The field of a message entry that holds a payload of the kind of key's field.
PayloadField(key) ==
  IF key \in DoubleElements THEN "double_value" ELSE "vector3d"

\* The value the engine holds for a writable key.
Held(key) ==
  CASE key = "max_step_size" -> <<maxStepSize>>
    [] key = "real_time_update_rate" -> <<realTimeUpdateRate>>
    [] key = "real_time_factor" -> <<targetRealTimeFactor>>
    [] OTHER -> sdf[key].value

\* C3: an entry named by a writable key, decoded from the field that holds a
\* payload of the kind of the key's field, is accepted by SetParam, and the
\* engine then holds the payload for that key.
C3_MessageValueApplied ==
  (/\ call.op = "SetParam"
   /\ pc = "incr"
   /\ entry.name \in WritableKeys
   /\ ~Skippable(entry)
   /\ DecodedField(entry) = PayloadField(entry.name))
    => /\ call.ret
       /\ Held(entry.name) = FieldAny(entry, DecodedField(entry)).v

\* C4: an entry without a discriminator is decoded from the first populated
\* field in the order double, int, string, vector3, bool, float, whatever other
\* fields are populated; with no field populated it is skipped and SetParam is
\* not called for it.
C4_LegacyDecodeOrder ==
  (entry.type = "none" /\ pc \in {"call", "incr"}) =>
    IF entry.has = {}
    THEN pc = "incr" /\ call.op = "continue"
    ELSE /\ value = FieldAny(entry, FirstPopulated(entry.has))
         /\ pc = "call" => call.op = "decoded"
         /\ pc = "incr" =>
              /\ call.op = "SetParam"
              /\ call.key = entry.name
              /\ call.value = FieldAny(entry, FirstPopulated(entry.has))

\* An entry with int_value and string_value populated was dispatched as an int.
C4_Witness ==
  /\ entry.type = "none"
  /\ entry.has = {"int_value", "string_value"}
  /\ call.op = "SetParam"
  /\ call.value = [type |-> "int", v |-> <<1>>]

\* C5: the callback returns only once the index has passed every entry; each
\* iteration decodes entry i, calls SetParam exactly when the entry is not
\* skippable, with the entry's own name and the value decoded from that entry,
\* and goes on to i++ whether the entry was skipped, refused or accepted.
C5_EveryEntryDispatched ==
  [][/\ (pc # "idle" /\ pc' = "idle") => (i = size /\ i' = i)
     /\ (pc # "idle") => size' = size
     /\ (pc = "head" /\ pc' # "idle") =>
          /\ i < size /\ i' = i
          /\ UNCHANGED engineVars
          /\ call'.op # "SetParam"
          /\ pc' = IF Skippable(entry') THEN "incr" ELSE "call"
     /\ (pc = "call") =>
          /\ call'.op = "SetParam"
          /\ call'.key = entry.name
          /\ call'.value = FieldAny(entry, DecodedField(entry))
          /\ entry' = entry /\ i' = i
          /\ pc' = "incr"
     /\ (pc = "incr") =>
          /\ i' = i + 1 /\ pc' = "head"
          /\ UNCHANGED engineVars
     /\ (call'.op = "SetParam") => pc = "call"]_vars

\* The third entry of a message was accepted by SetParam after an earlier entry
\* of the same message had been skipped or refused.
C5_Witness ==
  /\ missed
  /\ size = 3 /\ i = 2
  /\ pc = "incr"
  /\ call.op = "SetParam"
  /\ call.ret
  /\ call.key = "real_time_factor"
  /\ targetRealTimeFactor = 1

(***************************************************************************)
(* Properties of Param::Get, under SpecParam.                              *)
(***************************************************************************)

\* The string form of the handle read, its pieces, and the pieces kept once the
\* empty ones are dropped.
Form == GetAsString(handle)

Pieces == Split(Form)

Kept == Retained(Pieces)

\* The numbers a sequence of tokens spells.
Numbers(toks) == [k \in 1..Len(toks) |-> StrToNat(toks[k])]

AllNumbers(toks) == \A k \in 1..Len(toks) : IsNumber(toks[k])

\* The last call read a vector through the parse path: the tag is another's.
ParsePath == pcall.kind \in VectorKinds /\ handle.typeName # pcall.kind

\* C7: on the parse path the empty tokens are dropped before the count is
\* checked: a string form whose kept tokens are exactly the required count of
\* numbers parses to those numbers.
C7_EmptyTokensSkipped ==
  (ParsePath /\ Len(Kept) = Components(pcall.kind) /\ AllNumbers(Kept))
    => /\ pcall.outcome = "returned"
       /\ pcall.ret
       /\ pcall.out = Numbers(Kept)

\* C8: on the parse path, a string form whose kept tokens are not exactly the
\* required count of numbers makes Get return false with the output vector
\* untouched, no component being read that was not parsed.
C8_BadVectorRejected ==
  (ParsePath /\ ~(Len(Kept) = Components(pcall.kind) /\ AllNumbers(Kept)))
    => /\ pcall.outcome = "returned"
       /\ pcall.ret = FALSE
       /\ pcall.touched = {}

\* C9: a scalar accessor called on a handle of another tag returns false, assigns
\* nothing, downcasts nothing and leaves the handle as it is; a downcast to
\* ParamT<T> is made only of a handle whose tag is T's.
C9_ScalarGetChecksTag ==
  [][/\ handle' = handle
     /\ (pcall'.kind \in ScalarKinds) =>
          /\ (handle.typeName # pcall'.kind) =>
               /\ pcall'.outcome = "returned"
               /\ pcall'.ret = FALSE
               /\ pcall'.touched = {}
               /\ pcall'.cast = "none"
          /\ (pcall'.cast # "none") =>
               (pcall'.cast = pcall'.kind /\ handle.typeName = pcall'.kind)]_vars

\* Get(int &) was called on a double handle and returned false.
C9_Witness ==
  /\ pcall.kind = "int"
  /\ handle = [typeName |-> "double", value |-> <<2>>]
  /\ pcall.ret = FALSE
  /\ pcall.touched = {}

\* C10: a vector accessor called on a handle of another tag whose string form is
\* the required count of numbers, one space between, returns true with those
\* numbers, without a downcast; Get(int &) on a handle that is no int returns
\* false.
C10_VectorFallback ==
  /\ (ParsePath /\ Len(Pieces) = Components(pcall.kind) /\ AllNumbers(Pieces))
       => /\ pcall.outcome = "returned"
          /\ pcall.ret
          /\ pcall.out = Numbers(Pieces)
          /\ pcall.touched = 1..Components(pcall.kind)
          /\ pcall.cast = "none"
  /\ (pcall.kind = "int" /\ handle.typeName # "int") => pcall.ret = FALSE

\* Get(Vector3 &) was called on the string handle "1 2 1" and returned (1,2,1).
C10_Witness ==
  /\ handle = [typeName |-> "string",
               value |-> <<Char1, Space, Char2, Space, Char1>>]
  /\ pcall.kind = "vector3"
  /\ pcall.ret
  /\ pcall.out = <<1, 2, 1>>

(***************************************************************************)
(* The cached fields and the description tree, under Spec.                 *)
(***************************************************************************)

\* The three cached fields equal the values of their tree elements.
Synced ==
  /\ <<maxStepSize>> = sdf["max_step_size"].value
  /\ <<realTimeUpdateRate>> = sdf["real_time_update_rate"].value
  /\ <<targetRealTimeFactor>> = sdf["real_time_factor"].value

\* C11: Load makes the cached maxStepSize, realTimeUpdateRate and
\* targetRealTimeFactor equal to the values of the tree elements
\* max_step_size, real_time_update_rate and real_time_factor, and no later
\* SetParam, GetParam or typed setter call makes them differ: in every state
\* reached through Load the cached fields equal the tree's values.
C11_CacheMatchesTree ==
  [][/\ (call'.op = "Load") => Synced'
     /\ Synced => Synced']_vars

\* After a Load of a tree holding 1, SetParam("max_step_size", 0) returned true
\* and both the cached field and the tree element hold 0.
C11_Witness ==
  /\ call.op = "SetParam"
  /\ call.key = "max_step_size"
  /\ call.ret
  /\ maxStepSize = 0
  /\ sdf["max_step_size"].value = <<0>>
  /\ realTimeUpdateRate = 1
  /\ sdf["gravity"].value = <<1, 2, 3>>
  /\ Synced

(***************************************************************************)
(* Update messages and the stepping loop, under SpecLock.                  *)
(***************************************************************************)

\* C12: every write to the cached fields or the description tree made by
\* OnPhysicsMsg's SetParam call happens while the delivering thread holds
\* physicsUpdateMutex, so that no such write falls inside a cycle of the
\* stepping loop, which holds the mutex from its beginning to its end.
C12_MessageWritesUnderMutex ==
  [][/\ (pc = "call" /\ engineVars' # engineVars) => mutex = "msg"
     /\ (stepPc = "in" /\ stepPc' = "in") => UNCHANGED engineVars]_vars

====
